---- MODULE Spec2Model ----
(***************************************************************************)
(* winbackup-fuse (src/main.rs): the tree builder that merges the entries  *)
(* of several backup archives into one directory tree, and the FUSE        *)
(* request handlers that serve that tree and stream file contents through  *)
(* one forward-only decoder per file handle.                               *)
(*                                                                         *)
(* A path is a sequence of one-character strings; the separator is the     *)
(* backslash.  A node of the tree is addressed by the sequence of names    *)
(* leading to it from the root (the nested HashMaps of FSEntry::Directory).*)
(***************************************************************************)
EXTENDS Integers, Sequences, FiniteSets, TLC

\* ------------------------------------------------------------------ bounds
MaxArchives == 2      \* archives in the list
MaxEntries == 2       \* entries of all archives together
MaxTime == 2          \* modification times 1..MaxTime
MaxHandles == 1       \* open requests served, one handle in use
MaxOpens == 2         \* open requests served, several handles in use
MaxOffset == 1        \* read offsets 0..MaxOffset
MaxLen == 2           \* read sizes 0..MaxLen

\* --------------------------------------------------------------- constants
ENOENT == 2
BLOCK_SIZE == 65536

SEP == "\\"

VARIABLES
    sources,           \* the archives of the list scanned so far
    phase,             \* "scan", "build", "mounted", "panicked"
    files,             \* HashMap<String, Vec<FSEntryInfo>>
    pending,           \* keys of `files` the build loop has not visited yet
    tree,              \* the FSEntry tree: node path -> node
    ino_counter,
    filesystem,        \* WinbackupFS.filesystem: inode -> node path
    handlers,          \* WinbackupFS.handlers: fh -> OpenedArchive
    handlers_counter,
    issued,            \* the handle ids the open replies carried, in order
    last,              \* the request handled last
    reply,             \* the reply given to it
    released,          \* the handles released and not read since
    short,             \* the handles that met the end of file since their release
    faulted,           \* the handles that met a decode error since their release
    dir_order          \* directory inode -> its children in HashMap iteration order

vars == <<sources, phase, files, pending, tree, ino_counter,
          filesystem, handlers, handlers_counter, issued, last, reply,
          released, short, faulted, dir_order>>

treeVars == <<sources, files, pending, tree, ino_counter, filesystem,
              dir_order>>
serveVars == <<handlers, handlers_counter, issued, last, reply, released, short,
               faulted>>

\* ------------------------------------------------------------- the inputs
P_ab == <<"a", SEP, "b">>
P_abc == <<"a", SEP, "b", SEP, "c">>
P_ac == <<"a", SEP, "c">>
P_c == <<"c">>
PathPool == {P_ab, P_abc, P_ac, P_c}

\* the size of a pool entry; its bytes are Content(source) below
EntrySize(path, time) == Len(path) - 2 + (time - 1)

FileEntries == {[path |-> p, time |-> t, size |-> IF EntrySize(p, t) < 0 THEN 0 ELSE EntrySize(p, t), dir |-> FALSE] :
                   p \in PathPool, t \in 1..MaxTime}
DirEntry == [path |-> <<"a", SEP>>, time |-> 1, size |-> 0, dir |-> TRUE]
EntryPool == FileEntries \cup {DirEntry}

SeqsUpTo(S, n) == UNION {[1..k -> S] : k \in 0..n}

RECURSIVE TotalEntries(_)
TotalEntries(srcs) ==
    IF srcs = <<>> THEN 0 ELSE Len(Head(srcs).entries) + TotalEntries(Tail(srcs))

\* ---------------------------------------------------------------- helpers
Max(S) == CHOOSE x \in S : \A y \in S : y <= x
Min2(a, b) == IF a < b THEN a ELSE b

SepPositions(s) == {i \in 1..Len(s) : s[i] = SEP}

\* variant: str::split_once('\\'), at the first separator
split_once(s) ==
    IF SepPositions(s) = {} THEN [some |-> FALSE, dirs |-> <<>>, name |-> <<>>]
    ELSE LET i == CHOOSE k \in SepPositions(s) : \A j \in SepPositions(s) : k <= j
         IN [some |-> TRUE, dirs |-> SubSeq(s, 1, i - 1), name |-> SubSeq(s, i + 1, Len(s))]

\* str::rsplit_once('\\')
rsplit_once(s) ==
    IF SepPositions(s) = {} THEN [some |-> FALSE, dirs |-> <<>>, name |-> <<>>]
    ELSE LET i == Max(SepPositions(s))
         IN [some |-> TRUE, dirs |-> SubSeq(s, 1, i - 1), name |-> SubSeq(s, i + 1, Len(s))]

\* str::split('\\'): the segments between separators, empty ones included
RECURSIVE split(_)
split(s) ==
    IF SepPositions(s) = {} THEN <<s>>
    ELSE LET i == CHOOSE k \in SepPositions(s) : \A j \in SepPositions(s) : k <= j
         IN <<SubSeq(s, 1, i - 1)>> \o split(SubSeq(s, i + 1, Len(s)))

\* Iterator::max_by_key(|x| x.info.time): the last of the greatest elements
RECURSIVE max_fold(_, _)
max_fold(best, rest) ==
    IF rest = <<>> THEN best
    ELSE max_fold(IF Head(rest).info.time >= best.info.time THEN Head(rest) ELSE best,
                  Tail(rest))

\* variant: the first of the greatest elements (a fold that keeps on a tie)
RECURSIVE first_max_fold(_, _)
first_max_fold(best, rest) ==
    IF rest = <<>> THEN best
    ELSE first_max_fold(IF Head(rest).info.time > best.info.time THEN Head(rest) ELSE best,
                        Tail(rest))

first_max_by_key(cands) == first_max_fold(Head(cands), Tail(cands))

\* variant: the candidate scanned last replaces the earlier ones
last_candidate(cands) == cands[Len(cands)]

max_by_key(cands) == max_fold(Head(cands), Tail(cands))

\* FSEntry::dir(ino)
dir(ino) == [kind |-> "Directory", ino |-> ino,
             info |-> [time |-> 0, size |-> 0],
             source |-> [archive |-> 0, file_id |-> 0]]

FileNode(ino, cand) == [kind |-> "File", ino |-> ino, info |-> cand.info, source |-> cand.source]

\* variant: the increment is missing
stuck_ino(c) == c

\* ino_counter += 1
next_ino(c) == c + 1

IsPrefix(p, q) == Len(p) <= Len(q) /\ SubSeq(q, 1, Len(p)) = p

\* rough_file_info: the Vec<File> of an archive that opens, directories skipped
RECURSIVE rough_file_info(_, _)
rough_file_info(entries, i) ==
    IF i > Len(entries) THEN <<>>
    ELSE IF entries[i].dir THEN rough_file_info(entries, i + 1)
    ELSE <<[file_id |-> i - 1, path |-> entries[i].path,
            info |-> [time |-> entries[i].time, size |-> entries[i].size]]>>
         \o rough_file_info(entries, i + 1)

\* the `for file in infos` loop: push onto the path's Vec, or insert a new one
RECURSIVE add_infos(_, _, _)
add_infos(fs, archive, infos) ==
    IF infos = <<>> THEN fs
    ELSE LET file == Head(infos)
             entry == [info |-> file.info,
                       source |-> [archive |-> archive, file_id |-> file.file_id]]
             fs2 == IF file.path \in DOMAIN fs
                    THEN [fs EXCEPT ![file.path] = Append(@, entry)]
                    ELSE fs @@ (file.path :> <<entry>>)
         IN add_infos(fs2, archive, Tail(infos))

\* the `for dir_name in path.split('\\')` loop
RECURSIVE walk_dirs(_, _, _, _)
walk_dirs(t, ctr, prev_dir, segs) ==
    IF segs = <<>> THEN [tree |-> t, ctr |-> ctr, prev_dir |-> prev_dir]
    ELSE IF t[prev_dir].kind # "Directory" THEN [tree |-> t, ctr |-> ctr, prev_dir |-> prev_dir]
    ELSE LET child == Append(prev_dir, Head(segs))
         IN IF child \notin DOMAIN t
            THEN walk_dirs(t @@ (child :> dir(ctr)), next_ino(ctr), child, Tail(segs))
            ELSE walk_dirs(t, ctr, child, Tail(segs))

\* variant: an entry of that name is kept (entry().or_insert)
keep_leaf(t, at, node) ==
    IF at \in DOMAIN t THEN t ELSE t @@ (at :> node)

\* HashMap::insert of the leaf: an entry of that name, with all below it, is replaced
insert_leaf(t, at, node) ==
    LET keep == {n \in DOMAIN t : ~IsPrefix(at, n)}
    IN [n \in keep \cup {at} |-> IF n = at THEN node ELSE t[n]]

\* one iteration of `for (path, info) in files`
insert_path(t, ctr, path, cands) ==
    IF cands = <<>> THEN [tree |-> t, ctr |-> ctr]
    ELSE LET info == max_by_key(cands)
             rs == rsplit_once(path)
         IN IF ~rs.some THEN [tree |-> t, ctr |-> ctr]
            ELSE LET w == walk_dirs(t, ctr, <<>>, split(rs.dirs))
                 IN IF w.tree[w.prev_dir].kind # "Directory"
                    THEN [tree |-> w.tree, ctr |-> w.ctr]
                    ELSE [tree |-> insert_leaf(w.tree, Append(w.prev_dir, rs.name),
                                               FileNode(w.ctr, info)),
                          ctr |-> next_ino(w.ctr)]

\* build_filesystem_map: every node of the tree under its inode
build_filesystem_map(t) ==
    [i \in {t[n].ino : n \in DOMAIN t} |-> CHOOSE n \in DOMAIN t : t[n].ino = i]

EmptyFn == [x \in {} |-> 0]

\* the children of directory d: the keys of its `entries` map
Children(t, d) == {n \in DOMAIN t : Len(n) = Len(d) + 1 /\ IsPrefix(d, n)}

Perms(S) == {f \in [1..Cardinality(S) -> S] : \A i, j \in DOMAIN f : i # j => f[i] # f[j]}

Dirs(t) == {n \in DOMAIN t : t[n].kind = "Directory"}

DirInos(t) == {t[d].ino : d \in Dirs(t)}
DirOfIno(t, i) == CHOOSE d \in Dirs(t) : t[d].ino = i

\* HashMap::iter of every directory: one arbitrary, fixed order per map
DirOrders(t) ==
    {f \in [DirInos(t) -> UNION {Perms(Children(t, d)) : d \in Dirs(t)}] :
        \A i \in DirInos(t) : f[i] \in Perms(Children(t, DirOfIno(t, i)))}

Request(op, ino, fh, offset, size, name) ==
    [op |-> op, ino |-> ino, fh |-> fh, offset |-> offset, size |-> size, name |-> name,
     had |-> FALSE, viable |-> FALSE, back |-> FALSE, rel |-> FALSE,
     after_short |-> FALSE, can_open |-> TRUE, errs |-> {}, after_fault |-> FALSE]
NoRequest == Request("none", 0, 0, 0, 0, [utf8 |-> TRUE, str |-> <<>>])
NoReply == [kind |-> "none", data |-> <<>>, errno |-> 0]

\* ------------------------------------------------------------ tree builder
InitServeVars ==
    /\ handlers = EmptyFn
    /\ handlers_counter = 0
    /\ issued = <<>>
    /\ last = NoRequest
    /\ reply = NoReply
    /\ released = {}
    /\ short = {}
    /\ faulted = {}

InitBuild ==
    /\ sources = <<>>
    /\ phase = "scan"
    /\ files = EmptyFn
    /\ pending = {}
    /\ tree = EmptyFn
    /\ ino_counter = 0
    /\ filesystem = EmptyFn
    /\ dir_order = EmptyFn
    /\ InitServeVars

\* One iteration of `for archive in sources`; the archive met is the input.
\* fs::File::open(path).unwrap(), archive.by_index(i).unwrap(): the scan panics
ScanPanic ==
    /\ phase = "scan" /\ Len(sources) < MaxArchives
    /\ \E status \in {"unopenable", "badentry"} :
          sources' = Append(sources, [status |-> status, entries |-> <<>>])
    /\ phase' = "panicked"
    /\ UNCHANGED <<files, pending, tree, ino_counter, filesystem, dir_order>>
    /\ UNCHANGED serveVars

\* ZipArchive::new(reader).map_err(|_| ())? : Err, the loop continues
ScanSkip ==
    /\ phase = "scan" /\ Len(sources) < MaxArchives
    /\ sources' = Append(sources, [status |-> "corrupt", entries |-> <<>>])
    /\ UNCHANGED <<phase, files, pending, tree, ino_counter, filesystem, dir_order>>
    /\ UNCHANGED serveVars

ScanOk ==
    /\ phase = "scan" /\ Len(sources) < MaxArchives
    /\ \E entries \in SeqsUpTo(EntryPool, MaxEntries - TotalEntries(sources)) :
          /\ sources' = Append(sources, [status |-> "ok", entries |-> entries])
          /\ files' = add_infos(files, Len(sources) + 1, rough_file_info(entries, 1))
    /\ UNCHANGED <<phase, pending, tree, ino_counter, filesystem, dir_order>>
    /\ UNCHANGED serveVars

\* let mut root = FSEntry::dir(1); let mut ino_counter = 2;
BeginBuild ==
    /\ phase = "scan"
    /\ phase' = "build"
    /\ tree' = (<<>> :> dir(1))
    /\ ino_counter' = 2
    /\ pending' = DOMAIN files
    /\ UNCHANGED <<sources, files, filesystem, dir_order>>
    /\ UNCHANGED serveVars

\* the HashMap is visited in an arbitrary order
BuildStep ==
    /\ phase = "build"
    /\ \E path \in pending :
          LET r == insert_path(tree, ino_counter, path, files[path])
          IN /\ tree' = r.tree
             /\ ino_counter' = r.ctr
             /\ pending' = pending \ {path}
    /\ UNCHANGED <<sources, phase, files, filesystem, dir_order>>
    /\ UNCHANGED serveVars

\* WinbackupFS::from_tree; each directory's HashMap has some iteration order
FromTree ==
    /\ phase = "build" /\ pending = {}
    /\ phase' = "mounted"
    /\ filesystem' = build_filesystem_map(tree)
    /\ dir_order' \in DirOrders(tree)
    /\ UNCHANGED <<sources, files, pending, tree, ino_counter>>
    /\ UNCHANGED serveVars


\* ------------------------------------------------------ tree builder claims
Built == phase \in {"build", "mounted"}

\* the node path a merged path names: its segments between separators
NodePath(path) == split(path)

HasSeparator(path) == SepPositions(path) # {}

ArchivesOf(cands) == {cands[i].source.archive : i \in DOMAIN cands}

DistinctTimes(cands) ==
    \A i, j \in DOMAIN cands : i # j => cands[i].info.time # cands[j].info.time

IsNewest(cands, i) ==
    \A j \in DOMAIN cands : j # i => cands[j].info.time < cands[i].info.time

Carries(node, cand) ==
    node.kind = "File" /\ node.info = cand.info /\ node.source = cand.source

FileAt(path) == NodePath(path) \in DOMAIN tree /\ tree[NodePath(path)].kind = "File"

\* C1: a path found in more than one archive, all its candidates having
\* different modification times, is stored with the time, size and source of
\* the candidate with the greatest time, in whatever order the archives came.
C1_NewestCandidateWins ==
    Built =>
      \A path \in DOMAIN files :
         (Cardinality(ArchivesOf(files[path])) > 1 /\ DistinctTimes(files[path]) /\ FileAt(path))
         => \E i \in DOMAIN files[path] :
               IsNewest(files[path], i) /\ Carries(tree[NodePath(path)], files[path][i])

\* the newest candidate came from the first archive and is the one in the tree
C1_Witness ==
    /\ phase = "mounted"
    /\ \E path \in DOMAIN files :
          /\ Len(files[path]) > 1
          /\ Cardinality(ArchivesOf(files[path])) > 1
          /\ DistinctTimes(files[path])
          /\ IsNewest(files[path], 1)
          /\ FileAt(path)
          /\ Carries(tree[NodePath(path)], files[path][1])

\* every proper prefix of the node path is a Directory node
UnderDirectories(np) ==
    \A k \in 0..(Len(np) - 1) :
       SubSeq(np, 1, k) \in DOMAIN tree /\ tree[SubSeq(np, 1, k)].kind = "Directory"

\* another merged path with a separator names an ancestor of this path's node
HasFileAncestor(path) ==
    \E q \in DOMAIN files :
       /\ q # path
       /\ HasSeparator(q)
       /\ IsPrefix(NodePath(q), NodePath(path))

StoredAlone(path) ==
    /\ FileAt(path)
    /\ UnderDirectories(NodePath(path))
    /\ Carries(tree[NodePath(path)], files[path][1])

\* C2 as stated: every path with a separator and a single candidate is a File
\* node of the finished tree, whatever other paths were merged.
C2_SinglePathAlwaysStored ==
    phase = "mounted" =>
      \A path \in DOMAIN files :
         (HasSeparator(path) /\ Len(files[path]) = 1) => StoredAlone(path)

\* C2 amended: a path with a separator and a single candidate is a File node
\* of the finished tree, under Directory nodes, carrying its version, unless
\* another merged path names one of its ancestors; then it is absent.  Paths
\* below it do not matter.
C2_SinglePathStoredUnlessUnderFile ==
    phase = "mounted" =>
      \A path \in DOMAIN files :
         (HasSeparator(path) /\ Len(files[path]) = 1) =>
            IF HasFileAncestor(path)
            THEN NodePath(path) \notin DOMAIN tree
            ELSE StoredAlone(path)

\* a\b and a\b\c were both merged, and a\b is stored
C2_Witness ==
    /\ phase = "mounted"
    /\ P_ab \in DOMAIN files /\ P_abc \in DOMAIN files
    /\ Len(files[P_ab]) = 1 /\ Len(files[P_abc]) = 1
    /\ StoredAlone(P_ab)
    /\ ino_counter > 4

\* candidate c was scanned before candidate d: an earlier archive of the list,
\* or the same archive and a lower entry id
ScannedBefore(c, d) ==
    \/ c.source.archive < d.source.archive
    \/ c.source.archive = d.source.archive /\ c.source.file_id < d.source.file_id

\* the candidates of the greatest modification time
Tied(cands) ==
    {i \in DOMAIN cands : \A j \in DOMAIN cands : cands[j].info.time <= cands[i].info.time}

\* C20: when several candidates of a path have the greatest modification
\* time, the stored version is the one of them scanned last: of the latest
\* archive in the list and, within it, of the highest entry id.
C20_TieGoesToLastScanned ==
    Built =>
      \A path \in DOMAIN files :
         (Cardinality(Tied(files[path])) > 1 /\ FileAt(path)) =>
            \E w \in Tied(files[path]) :
               /\ \A j \in Tied(files[path]) \ {w} :
                     ScannedBefore(files[path][j], files[path][w])
               /\ tree[NodePath(path)].source = files[path][w].source
               /\ tree[NodePath(path)].info = files[path][w].info

\* two archives gave a\b the same time, and the second archive's entry is stored
C20_Witness ==
    /\ phase = "mounted"
    /\ P_ab \in DOMAIN files
    /\ Len(files[P_ab]) = 2
    /\ files[P_ab][1].info.time = files[P_ab][2].info.time
    /\ files[P_ab][1].source.archive = 1
    /\ FileAt(P_ab)
    /\ tree[NodePath(P_ab)].source = [archive |-> 2, file_id |-> 0]

RECURSIVE scan_ok(_, _, _)
scan_ok(srcs, i, fs) ==
    IF i > Len(srcs) THEN fs
    ELSE IF srcs[i].status = "ok"
         THEN scan_ok(srcs, i + 1, add_infos(fs, i, rough_file_info(srcs[i].entries, 1)))
         ELSE scan_ok(srcs, i + 1, fs)

\* C8: an archive whose scan fails (it cannot be opened, its container is
\* corrupt, an entry cannot be read) adds no candidate and never stops the
\* startup: the candidates are those of the archives that scanned.
C8_ScanFailureIsolated ==
    /\ phase # "panicked"
    /\ files = scan_ok(sources, 1, EmptyFn)

\* C10: no two nodes of the tree have the same inode, the root alone has
\* inode 1, every other node an inode from 2 up that the counter has passed.
C10_InodesUnique ==
    Built =>
      /\ \A n, m \in DOMAIN tree : n # m => tree[n].ino # tree[m].ino
      /\ tree[<<>>].ino = 1
      /\ \A n \in DOMAIN tree : n # <<>> => (tree[n].ino >= 2 /\ tree[n].ino < ino_counter)

\* a file path that is a directory prefix of another was merged, a Directory
\* was replaced by the File, and the inodes of the replaced nodes are gone
C10_Witness ==
    /\ phase = "mounted"
    /\ P_ab \in DOMAIN files /\ P_abc \in DOMAIN files
    /\ Cardinality(DOMAIN tree) = 3
    /\ ino_counter = 6
    /\ DOMAIN filesystem = {1, 2, 5}

\* ------------------------------------------------------------ read engine
EntryOf(src) == sources[src.archive].entries[src.file_id + 1]

\* the decoded bytes of an archive entry, each position a different value
Content(src) == [k \in 1..EntryOf(src).size |-> 100 * src.archive + 10 * src.file_id + k]

\* the file's bytes in [offset, min(offset + size, S))
Slice(src, offset, size) ==
    SubSeq(Content(src), offset + 1, Min2(offset + size, EntryOf(src).size))

\* OpenedArchive::open, OwnedZipFileBytes::open: offset 0, a decoder at the entry's start
open_archive(src) == [offset |-> 0, archive |-> src.archive, file_id |-> src.file_id, pos |-> 0]

\* stands for 2^64, the range of usize: offset - self.offset wraps below zero
USIZE_RANGE == 1073741824

\* variant: the state is kept whatever the offset
always_viable(st, offset) == TRUE

\* OpenedArchive::is_viable
is_viable(st, offset) == offset >= st.offset

\* OpenedArchive::read_bytes: bytes.skip(to_skip).take(size).filter_map(ok).collect().
\* Take yields nothing when size = 0 and then never polls Skip, so nothing is
\* skipped; otherwise Skip consumes to_skip items on Take's first poll and Take
\* consumes up to size more.  pos counts the bytes consumed from the decoder.
\* errs: the polls of the decoder (counted from 1 in this call) that yield Err;
\* such an item is skipped or taken like a byte, filter_map drops it, and the
\* decoder yields the same byte on its next poll.
read_bytes(st, offset, size, errs) ==
    LET src == [archive |-> st.archive, file_id |-> st.file_id]
        S == EntryOf(src).size
        to_skip == IF offset >= st.offset THEN offset - st.offset
                   ELSE USIZE_RANGE + (offset - st.offset)
        skip_errs == Cardinality({e \in errs : e <= to_skip})
        take_errs == Cardinality({e \in errs : e > to_skip /\ e <= to_skip + size})
        pos1 == IF size = 0 THEN st.pos ELSE Min2(S, st.pos + to_skip - skip_errs)
        pos2 == IF size = 0 THEN st.pos ELSE Min2(S, pos1 + size - take_errs)
    IN [state |-> [st EXCEPT !.offset = offset + size, !.pos = pos2],
        data |-> SubSeq(Content(src), pos1 + 1, pos2)]

\* the polls of errs that read_bytes makes: within skip and take, and before
\* the decoder has reported the end of the entry
met_errs(st, offset, size, errs) ==
    LET S == EntryOf([archive |-> st.archive, file_id |-> st.file_id]).size
        to_skip == IF offset >= st.offset THEN offset - st.offset
                   ELSE USIZE_RANGE + (offset - st.offset)
    IN {e \in errs : /\ size > 0
                     /\ e <= to_skip + size
                     /\ (e - 1) - Cardinality({x \in errs : x < e}) <= S - st.pos}

\* variant: every entry is dropped (HashMap::clear)
clear_handlers(h, fh) == [k \in {} |-> h[k]]

\* variant: the entry stays in the table
keep_handler(h, fh) == h

\* HashMap::remove(&fh)
remove_handler(h, fh) == [k \in DOMAIN h \ {fh} |-> h[k]]

\* stands for 2^64, the range of u64
U64_RANGE == USIZE_RANGE

\* info.info.size + BLOCK_SIZE - 1 does not fit u64: a build with overflow
\* checks panics there, a build without them wraps
attrs_overflows(node) ==
    node.kind = "File" /\ node.info.size + BLOCK_SIZE - 1 >= U64_RANGE

\* FSEntry::attrs
attrs(node) ==
    IF node.kind = "File"
    THEN [ino |-> node.ino, size |-> node.info.size,
          blocks |-> ((node.info.size + BLOCK_SIZE - 1) % U64_RANGE) \div BLOCK_SIZE,
          time |-> node.info.time, kind |-> "RegularFile", perm |-> 420, nlink |-> 1,
          blksize |-> BLOCK_SIZE]
    ELSE [ino |-> node.ino, size |-> 0, blocks |-> 0, time |-> 0, kind |-> "Directory",
          perm |-> 493, nlink |-> 2, blksize |-> 0]

\* FSEntry::filetype
filetype(node) == IF node.kind = "File" THEN "RegularFile" ELSE "Directory"

Error(errno) == [kind |-> "error", data |-> <<>>, errno |-> errno]
Data(bytes) == [kind |-> "data", data |-> bytes, errno |-> 0]
Ok == [kind |-> "ok", data |-> <<>>, errno |-> 0]

IsKind(ino, kind) == ino \in DOMAIN filesystem /\ tree[filesystem[ino]].kind = kind

\* the requests the transport delivers: the inodes of the tree and an unknown one;
\* open and release come for files
\* an OsStr name: its text, or not valid UTF-8 (name.to_str() is None)
NamePool == {[utf8 |-> TRUE, str |-> n] : n \in {<<"a">>, <<"b">>, <<"d">>, <<"z">>}}
            \cup {[utf8 |-> FALSE, str |-> <<>>]}
NoName == [utf8 |-> TRUE, str |-> <<>>]
InoPool == DOMAIN filesystem \cup {ino_counter}
FileInos == {i \in DOMAIN filesystem : tree[filesystem[i]].kind = "File"}
\* read is tried on the files, on the root directory and on an unknown inode
ReadInoPool == FileInos \cup {1, ino_counter}
Opened == 0..(handlers_counter - 1)

Serving == phase = "mounted"

\* the node lookup finds, if it finds one
Found(parent, name) ==
    /\ IsKind(parent, "Directory")
    /\ name.utf8
    /\ Append(filesystem[parent], name.str) \in DOMAIN tree

\* WinbackupFS::lookup
\* checked: whether the build has overflow checks
Lookup(parent, name, checked) ==
    /\ Serving
    /\ last' = Request("lookup", parent, 0, 0, 0, name)
    /\ IF ~IsKind(parent, "Directory") THEN reply' = Error(ENOENT) /\ UNCHANGED phase
       ELSE IF ~name.utf8 THEN reply' = Error(ENOENT) /\ UNCHANGED phase
       ELSE IF Append(filesystem[parent], name.str) \notin DOMAIN tree
       THEN reply' = Error(ENOENT) /\ UNCHANGED phase
       ELSE LET file == tree[Append(filesystem[parent], name.str)]
            IN IF checked /\ attrs_overflows(file)
               THEN phase' = "panicked" /\ reply' = NoReply
               ELSE /\ reply' = [kind |-> "entry", data |-> <<attrs(file)>>, errno |-> 0]
                    /\ UNCHANGED phase
    /\ UNCHANGED <<handlers, handlers_counter, issued, released, short, faulted>>
    /\ UNCHANGED treeVars

\* WinbackupFS::getattr
Getattr(ino, checked) ==
    /\ Serving
    /\ last' = Request("getattr", ino, 0, 0, 0, NoName)
    /\ IF ino \notin DOMAIN filesystem THEN reply' = Error(ENOENT) /\ UNCHANGED phase
       ELSE IF checked /\ attrs_overflows(tree[filesystem[ino]])
       THEN phase' = "panicked" /\ reply' = NoReply
       ELSE /\ reply' = [kind |-> "attr", data |-> <<attrs(tree[filesystem[ino]])>>, errno |-> 0]
            /\ UNCHANGED phase
    /\ UNCHANGED <<handlers, handlers_counter, issued, released, short, faulted>>
    /\ UNCHANGED treeVars

\* the builds to tell apart for a request: both when the attributes of the
\* node it reaches overflow, one otherwise
Builds(node_found, np) ==
    IF node_found /\ attrs_overflows(tree[np]) THEN BOOLEAN ELSE {FALSE}

\* WinbackupFS::release; its _ino is ignored
Release(ino, fh) ==
    /\ Serving
    /\ last' = [Request("release", ino, fh, 0, 0, NoName) EXCEPT
                   !.had = fh \in DOMAIN handlers]
    /\ handlers' = remove_handler(handlers, fh)
    /\ released' = released \cup {fh}
    /\ short' = short \ {fh}
    /\ faulted' = faulted \ {fh}
    /\ reply' = Ok
    /\ UNCHANGED <<phase, handlers_counter, issued>>
    /\ UNCHANGED treeVars

\* variant: the id is the number of handles that hold a state
recycled_handle(h, c) == Cardinality(DOMAIN h)

\* self.handlers_counter += 1
next_handle(h, c) == c + 1

\* variant: open creates the decoder state of the file
open_with_state(ino) ==
    /\ Serving
    /\ last' = Request("open", ino, handlers_counter, 0, 0, NoName)
    /\ reply' = [kind |-> "opened", data |-> <<handlers_counter>>, errno |-> 0]
    /\ handlers_counter' = next_handle(handlers, handlers_counter)
    /\ issued' = Append(issued, handlers_counter)
    /\ handlers' = [k \in DOMAIN handlers \cup {handlers_counter} |->
                      IF k = handlers_counter
                      THEN open_archive(tree[filesystem[ino]].source) ELSE handlers[k]]
    /\ UNCHANGED <<phase, released, short, faulted>>
    /\ UNCHANGED treeVars

\* WinbackupFS::open; its _ino is ignored
Open(ino) ==
    /\ Serving
    /\ last' = Request("open", ino, handlers_counter, 0, 0, NoName)
    /\ reply' = [kind |-> "opened", data |-> <<handlers_counter>>, errno |-> 0]
    /\ handlers_counter' = next_handle(handlers, handlers_counter)
    /\ issued' = Append(issued, handlers_counter)
    /\ UNCHANGED <<phase, handlers, released, short, faulted>>
    /\ UNCHANGED treeVars

\* WinbackupFS::read
\* can_open: whether File::open and ZipArchive::new succeed on the source now
\* errs: the polls of the decoder that yield a transient error
Read(ino, fh, offset, size, can_open, errs) ==
    LET had == fh \in DOMAIN handlers
        req == [Request("read", ino, fh, offset, size, NoName) EXCEPT
                   !.had = had,
                   !.viable = had /\ is_viable(handlers[fh], offset),
                   !.back = had /\ offset < handlers[fh].offset,
                   !.rel = fh \in released,
                   !.after_short = fh \in short,
                   !.can_open = can_open,
                   !.errs = errs,
                   !.after_fault = fh \in faulted]
        \* the request runs past the end of the entry the decoder is bound to
        eof(st) == offset + size > EntryOf([archive |-> st.archive, file_id |-> st.file_id]).size
    IN
    /\ Serving
    /\ last' = req
    /\ IF had /\ is_viable(handlers[fh], offset)
       THEN \* Entry::Occupied and viable: the state is used as it is
            LET r == read_bytes(handlers[fh], offset, size, errs)
            IN /\ handlers' = [handlers EXCEPT ![fh] = r.state]
               /\ reply' = Data(r.data)
               /\ short' = IF eof(r.state) THEN short \cup {fh} ELSE short
               /\ faulted' = IF met_errs(handlers[fh], offset, size, errs) # {}
                             THEN faulted \cup {fh} ELSE faulted
               /\ UNCHANGED <<phase, released>>
       ELSE IF ~IsKind(ino, "File")
       THEN /\ reply' = Error(ENOENT)
            /\ UNCHANGED <<phase, handlers, released, short, faulted>>
       ELSE LET src == tree[filesystem[ino]].source
            IN IF ~can_open
               THEN \* std::fs::File::open(archive).unwrap() panics
                    /\ phase' = "panicked"
                    /\ reply' = NoReply
                    /\ UNCHANGED <<handlers, released, short, faulted>>
               ELSE LET r == read_bytes(open_archive(src), offset, size, errs)
                    IN /\ handlers' = [k \in DOMAIN handlers \cup {fh} |->
                                          IF k = fh THEN r.state ELSE handlers[k]]
                       /\ reply' = Data(r.data)
                       /\ released' = released \ {fh}
                       /\ short' = IF eof(r.state) THEN short \cup {fh} ELSE short
                       /\ faulted' = IF met_errs(open_archive(src), offset, size, errs) # {}
                                     THEN faulted \cup {fh} ELSE faulted
                       /\ UNCHANGED phase
    /\ UNCHANGED <<handlers_counter, issued>>
    /\ UNCHANGED treeVars

\* variant: the entry carries its own position
same_offset(i) == i

\* (i + 1) as i64: the offset reply.add gives the entry at position i
next_offset(i) == i + 1

\* the loop of readdir: entries.iter().enumerate().skip(offset), until reply.add
\* reports a full buffer (capacity entries fit)
readdir_entries(ino, offset, capacity) ==
    LET order == dir_order[ino]
        upto == Min2(Len(order), offset + capacity)
    IN [k \in 1..(IF upto > offset THEN upto - offset ELSE 0) |->
          LET i == offset + k - 1
              child == order[i + 1]
          IN [ino |-> tree[child].ino, offset |-> next_offset(i),
              kind |-> filetype(tree[child]),
              name |-> child[Len(child)]]]

\* WinbackupFS::readdir
Readdir(ino, offset, capacity) ==
    /\ Serving
    /\ last' = Request("readdir", ino, 0, offset, capacity, NoName)
    /\ reply' = IF ~IsKind(ino, "Directory") THEN Error(ENOENT)
                ELSE [kind |-> "dir", errno |-> 0,
                      data |-> readdir_entries(ino, offset, capacity)]
    /\ UNCHANGED <<phase, handlers, handlers_counter, issued, released, short, faulted>>
    /\ UNCHANGED treeVars

ChildCount(ino) == IF IsKind(ino, "Directory") THEN Len(dir_order[ino]) ELSE 0

\* the read reaches OpenedArchive::open
NeedsOpen(ino, fh, offset) ==
    /\ ~(fh \in DOMAIN handlers /\ is_viable(handlers[fh], offset))
    /\ IsKind(ino, "File")

NextServe ==
    \/ \E parent \in InoPool, name \in NamePool :
          \E checked \in Builds(Found(parent, name), Append(filesystem[parent], name.str)) :
             Lookup(parent, name, checked)
    \/ \E ino \in InoPool :
          \E checked \in Builds(ino \in DOMAIN filesystem, filesystem[ino]) :
             Getattr(ino, checked)
    \/ \E ino \in FileInos : handlers_counter < MaxHandles /\ Open(ino)
    \/ \E ino \in ReadInoPool, fh \in Opened, offset \in 0..MaxOffset, size \in 0..MaxLen :
          \E can_open \in IF NeedsOpen(ino, fh, offset) THEN BOOLEAN ELSE {TRUE} :
             Read(ino, fh, offset, size, can_open, {})
    \/ \E ino \in InoPool :
          \E offset \in 0..(ChildCount(ino) + 1), capacity \in {1, ChildCount(ino) + 1} :
             Readdir(ino, offset, capacity)
    \/ \E ino \in FileInos, fh \in Opened : Release(ino, fh)

\* the requests that only look at the tree
NextTree ==
    \/ \E parent \in InoPool, name \in NamePool :
          \E checked \in Builds(Found(parent, name), Append(filesystem[parent], name.str)) :
             Lookup(parent, name, checked)
    \/ \E ino \in InoPool :
          \E checked \in Builds(ino \in DOMAIN filesystem, filesystem[ino]) :
             Getattr(ino, checked)
    \/ \E ino \in InoPool :
          \E offset \in 0..(ChildCount(ino) + 1), capacity \in 1..(ChildCount(ino) + 1) :
             Readdir(ino, offset, capacity)

\* the decoder may yield transient errors: on no poll of a read, on one of the
\* polls the read can make, or on all of them
ErrPool(offset, size) ==
    {{}} \cup {{e} : e \in 1..(offset + size)} \cup {1..(offset + size)}

NextFaulty ==
    \/ \E ino \in FileInos : handlers_counter < MaxHandles /\ Open(ino)
    \/ \E ino \in FileInos, fh \in Opened, offset \in 0..MaxOffset, size \in 0..MaxLen :
          \E errs \in ErrPool(offset, size) : Read(ino, fh, offset, size, TRUE, errs)
    \/ \E ino \in FileInos, fh \in Opened : Release(ino, fh)

\* several handles in use: the open, read and release requests on the files
NextHandles ==
    \/ \E ino \in FileInos : handlers_counter < MaxOpens /\ Open(ino)
    \/ \E ino \in FileInos, fh \in Opened, offset \in 0..MaxOffset, size \in 0..MaxLen :
          Read(ino, fh, offset, size, TRUE, {})
    \/ \E ino \in FileInos, fh \in Opened : Release(ino, fh)

\* ------------------------------------------------------ read engine claims
FileSrc(ino) == tree[filesystem[ino]].source

\* what a read of [offset, offset + size) of the file must return
Truth(ino, offset, size) == Slice(FileSrc(ino), offset, size)

\* the read on a handle that has no state: OpenedArchive::open, then read_bytes
FreshRead(ino, offset, size) == read_bytes(open_archive(FileSrc(ino)), offset, size, {})

ReadOfFile == last.op = "read" /\ IsKind(last.ino, "File")

\* C3: read(a, b - a) then read(b, c - b) on one handle and one file, c within
\* the file, return together what one read(a, c - a) on a fresh handle returns.
C3_ForwardReadsConcatenate ==
    [][(/\ ReadOfFile /\ reply.kind = "data"
        /\ last'.op = "read" /\ reply'.kind = "data"
        /\ last'.ino = last.ino /\ last'.fh = last.fh
        /\ last'.offset = last.offset + last.size
        /\ last'.offset + last'.size <= EntryOf(FileSrc(last.ino)).size)
       => reply.data \o reply'.data
            = FreshRead(last.ino, last.offset, last.size + last'.size).data]_vars

\* C4: a read at an offset below the recorded one drops the state and decodes
\* the entry anew: it returns the file's bytes of the range, as on a fresh
\* handle, and leaves the state a fresh handle would have.
C4_BackwardSeekReopens ==
    (ReadOfFile /\ last.back /\ last.can_open) =>
       /\ phase = "mounted"
       /\ reply = Data(Truth(last.ino, last.offset, last.size))
       /\ reply.data = FreshRead(last.ino, last.offset, last.size).data
       /\ last.fh \in DOMAIN handlers
       /\ handlers[last.fh] = FreshRead(last.ino, last.offset, last.size).state

\* a backward read that returned bytes of the start of the file
C4_Witness ==
    /\ ReadOfFile /\ last.back /\ last.can_open
    /\ last.offset = 0
    /\ Len(reply.data) >= 1
    /\ reply.data = Truth(last.ino, 0, last.size)

\* C5: once a handle has had a short read at the end of the file, every later
\* read on it returns the file's bytes of [offset, min(offset + size, S)).
C5_ReadsAfterEndOfFile ==
    (ReadOfFile /\ last.after_short /\ phase = "mounted") =>
       reply = Data(Truth(last.ino, last.offset, last.size))

\* C6: release removes the handle's state and replies ok; the next read on the
\* handle decodes the entry from its start and returns the file's bytes of
\* the range, leaving the state a fresh handle would have.
C6_ReleaseDropsState ==
    /\ last.op = "release" => (last.fh \notin DOMAIN handlers /\ reply = Ok)
    /\ (ReadOfFile /\ last.rel /\ last.can_open) =>
          /\ phase = "mounted"
          /\ reply = Data(Truth(last.ino, last.offset, last.size))
          /\ last.fh \in DOMAIN handlers
          /\ handlers[last.fh] = FreshRead(last.ino, last.offset, last.size).state

\* a state was released, and the read that followed returned bytes
C6_Witness ==
    /\ ReadOfFile /\ last.rel /\ last.can_open
    /\ Len(reply.data) >= 1
    /\ last.fh \in DOMAIN handlers

C6_ReleaseWitness == last.op = "release" /\ last.had /\ last.fh \notin DOMAIN handlers

\* C7: lookup and readdir on an inode that is no Directory, getattr on an
\* unknown inode and read on an inode that is no File reply ENOENT.
C7_NotFoundUniform ==
    (\/ last.op \in {"lookup", "readdir"} /\ ~IsKind(last.ino, "Directory")
     \/ last.op = "getattr" /\ last.ino \notin DOMAIN filesystem
     \/ last.op = "read" /\ ~IsKind(last.ino, "File"))
    => (reply = Error(ENOENT) /\ phase = "mounted")

\* C9: a read that must open the decoder while the archive cannot be opened
\* replies ENOENT, leaves the handle without state and the process serving.
C9_UnopenableSourceIsNotFound ==
    (last.op = "read" /\ ~last.can_open) =>
       /\ reply = Error(ENOENT)
       /\ phase = "mounted"
       /\ last.fh \notin DOMAIN handlers

\* C11: the ids that successive opens return are strictly increasing, so no
\* id is returned twice, released or not; open leaves the handle table as it
\* was, and a handle gets a state only by a read on that handle.
C11_OpenIdsIncreaseNoState ==
    [][/\ issued' # issued =>
            /\ last'.op = "open" /\ reply'.kind = "opened"
            /\ reply'.data = <<issued'[Len(issued')]>>
            /\ \A i \in DOMAIN issued : issued[i] < issued'[Len(issued')]
            /\ handlers' = handlers
       /\ \A fh \in DOMAIN handlers' \ DOMAIN handlers :
            last'.op = "read" /\ last'.fh = fh]_vars

\* the second open came after the first handle was released and got a new id
C11_Witness ==
    /\ last.op = "open"
    /\ Len(issued) = 2 /\ issued[1] # issued[2]
    /\ reply.data = <<issued[2]>>
    /\ issued[1] \in released

\* what a client collects that starts at offset 0 and calls readdir with the
\* last offset it received, until a reply is empty (at most `calls` calls)
RECURSIVE Walk(_, _, _, _)
Walk(ino, capacity, offset, calls) ==
    LET r == readdir_entries(ino, offset, capacity)
    IN IF r = <<>> \/ calls = 0 THEN <<>>
       ELSE r \o Walk(ino, capacity, r[Len(r)].offset, calls - 1)

\* the entry readdir must give for the child at position i (from 0) of `order`
DirEntryAt(order, i) ==
    [ino |-> tree[order[i + 1]].ino, offset |-> i + 1,
     kind |-> IF tree[order[i + 1]].kind = "File" THEN "RegularFile" ELSE "Directory",
     name |-> order[i + 1][Len(order[i + 1])]]

\* C12: readdir(ino, k) of a Directory with n children replies the children at
\* positions k, k + 1, ... of its one enumeration order, the child at position
\* i with offset i + 1, as many as fit; a client following the offsets from 0
\* gets every child exactly once, whatever the capacity >= 1, and an empty
\* reply at offset n; an inode that is no Directory gets not-found.
C12_ReaddirEnumerates ==
    /\ last.op = "readdir" =>
          IF IsKind(last.ino, "Directory")
          THEN LET order == dir_order[last.ino]
                   n == Len(order)
                   rest == IF last.offset < n THEN n - last.offset ELSE 0
               IN /\ reply.kind = "dir"
                  /\ Len(reply.data) = Min2(last.size, rest)
                  /\ \A j \in DOMAIN reply.data :
                        reply.data[j] = DirEntryAt(order, last.offset + j - 1)
          ELSE reply = Error(ENOENT)
    /\ Serving =>
          \A d \in DirInos(tree) :
             LET order == dir_order[d]
                 n == Len(order)
             IN /\ {order[i] : i \in 1..n} = Children(tree, filesystem[d])
                /\ \A capacity \in 1..(n + 1) :
                      /\ Walk(d, capacity, 0, n + 1) = [i \in 1..n |-> DirEntryAt(order, i - 1)]
                      /\ readdir_entries(d, n, capacity) = <<>>

\* the second of three children was asked for alone and came with offset 2
C12_Witness ==
    /\ last.op = "readdir" /\ IsKind(last.ino, "Directory")
    /\ Len(dir_order[last.ino]) = 3
    /\ last.offset = 1 /\ last.size = 1
    /\ Len(reply.data) = 1 /\ reply.data[1].offset = 2
    /\ reply.data[1].name = dir_order[last.ino][2][2]

\* ceil(s / b)
CeilDiv(s, b) == IF s % b = 0 THEN s \div b ELSE (s \div b) + 1

\* the node whose attributes the last getattr or lookup was asked for
AttrNode ==
    IF last.op = "getattr" THEN tree[filesystem[last.ino]]
    ELSE tree[Append(filesystem[last.ino], last.name.str)]

AttrAsked ==
    \/ last.op = "getattr" /\ last.ino \in DOMAIN filesystem
    \/ last.op = "lookup" /\ Found(last.ino, last.name)

\* C13: getattr, and lookup in its entry, report the node's own inode, 0644
\* and regular file for a File, 0755 and directory for a Directory, the block
\* size 65536 for every node, and ceil(size / 65536) blocks for a File of any
\* u64 size, 0 blocks for a Directory.
C13_Attributes ==
    AttrAsked =>
       /\ phase = "mounted"
       /\ reply.kind = (IF last.op = "getattr" THEN "attr" ELSE "entry")
       /\ LET a == reply.data[1]
              node == AttrNode
          IN /\ a.ino = node.ino
             /\ a.blksize = BLOCK_SIZE
             /\ IF node.kind = "File"
                THEN /\ a.perm = 420 /\ a.kind = "RegularFile"
                     /\ a.size = node.info.size
                     /\ a.blocks = CeilDiv(node.info.size, BLOCK_SIZE)
                ELSE /\ a.perm = 493 /\ a.kind = "Directory"
                     /\ a.blocks = 0

\* C17: no request changes the tree or the inode index; lookup, getattr and
\* readdir leave the handle table and the handle counter as they were; only
\* open changes the counter, only read and release change the table.
C17_ServingFrame ==
    [][/\ tree' = tree /\ filesystem' = filesystem /\ dir_order' = dir_order
       /\ last'.op \in {"lookup", "getattr", "readdir"} =>
             (handlers' = handlers /\ handlers_counter' = handlers_counter)
       /\ handlers_counter' # handlers_counter => last'.op = "open"
       /\ handlers' # handlers => last'.op \in {"read", "release"}]_vars

\* a read gave the handle its state, and the index is still that of the tree
C17_Witness ==
    /\ last.op = "read" /\ ~last.had /\ last.fh \in DOMAIN handlers
    /\ handlers_counter = 1
    /\ filesystem = build_filesystem_map(tree)

\* C18: with a decoder that yields no error, after any reads on a handle the
\* bytes consumed from its decoder number min(recorded offset, S), and every
\* read of a File returns the file's bytes of [offset, min(offset + size, S)).
C18_PositionFollowsOffset ==
    /\ \A fh \in DOMAIN handlers :
          handlers[fh].pos =
             Min2(handlers[fh].offset,
                  EntryOf([archive |-> handlers[fh].archive,
                           file_id |-> handlers[fh].file_id]).size)
    /\ (ReadOfFile /\ reply.kind = "data") =>
          reply.data = Truth(last.ino, last.offset, last.size)

\* the handle's own state before the request, if it has one
Own(h, fh) == IF fh \in DOMAIN h THEN <<h[fh]>> ELSE <<>>

\* what a read gives on a handle whose state is `own`, no other handle existing
Alone(own, ino, offset, size) ==
    IF own # <<>> /\ offset >= own[1].offset
    THEN read_bytes(own[1], offset, size, {})
    ELSE FreshRead(ino, offset, size)

\* C19: a request on one handle leaves every other handle's state (its
\* offset and decoder position, or its absence) as it was, and a read returns
\* the bytes and leaves the state that the handle's own state alone
\* determines, whatever was requested on other handles in between.
C19_HandlesIsolated ==
    [][/\ \A k \in (DOMAIN handlers \cup DOMAIN handlers') \ {last'.fh} :
             Own(handlers', k) = Own(handlers, k)
       /\ (last'.op = "read" /\ IsKind(last'.ino, "File")) =>
             LET r == Alone(Own(handlers, last'.fh), last'.ino, last'.offset, last'.size)
             IN /\ reply' = Data(r.data)
                /\ Own(handlers', last'.fh) = <<r.state>>]_vars

\* two handles hold states at different offsets, and the last read used its
\* handle's own state
C19_Witness ==
    /\ last.op = "read" /\ last.had /\ last.viable
    /\ Cardinality(DOMAIN handlers) = 2
    /\ \E k \in DOMAIN handlers :
          /\ k # last.fh
          /\ handlers[k].offset # handlers[last.fh].offset
          /\ handlers[k].pos # handlers[last.fh].pos
    /\ Len(reply.data) >= 1

\* C14: after a read that returned data, the offset recorded in the handle's
\* state is the requested offset plus the number of bytes the read returned,
\* short reads at the end of the file included.
C14_OffsetCountsReturnedBytes ==
    (last.op = "read" /\ reply.kind = "data") =>
       /\ last.fh \in DOMAIN handlers
       /\ handlers[last.fh].offset = last.offset + Len(reply.data)

\* C15: after a read on which the decoder yielded a transient error, every
\* later read on the handle (none released in between, the decoder yielding
\* no error on it) returns the file's bytes of [offset, min(offset + size, S)).
C15_DecodeErrorsDoNotPoison ==
    (ReadOfFile /\ last.after_fault /\ last.errs = {} /\ phase = "mounted") =>
       reply = Data(Truth(last.ino, last.offset, last.size))

\* the tree the build loop makes of the map `fs` visited in the order `order`
RECURSIVE build_all(_, _, _)
build_all(r, fs, order) ==
    IF order = <<>> THEN r
    ELSE build_all(insert_path(r.tree, r.ctr, Head(order), fs[Head(order)]), fs, Tail(order))

\* the structure of a tree: its nodes without their inode numbers
Structure(t) ==
    [n \in DOMAIN t |-> [kind |-> t[n].kind, info |-> t[n].info, source |-> t[n].source]]

\* the tree the build loop makes when it visits the merge map in `order`
TreeOf(order) == build_all([tree |-> (<<>> :> dir(1)), ctr |-> 2], files, order).tree

\* the build loop has ended; from_tree has not run yet
LoopEnded == phase = "build" /\ pending = {}

OrderIndependent ==
    \A order \in Perms(DOMAIN files) : Structure(TreeOf(order)) = Structure(tree)

\* C16 as stated: every order of visiting the merge map gives the finished
\* tree's directory paths and file paths with their versions, and every
\* merged path a\b\c is there as the File c under the Directories a and a\b.
C16_SameStructureEveryPathPresent ==
    LoopEnded =>
       /\ OrderIndependent
       /\ \A path \in DOMAIN files :
             HasSeparator(path) => (FileAt(path) /\ UnderDirectories(NodePath(path)))

\* C16 amended: every order of visiting the merge map gives the finished
\* tree's directory paths and file paths with their versions; a merged path
\* is there as a File under the Directories of its segments unless another
\* merged path names one of its ancestors, and then it is there in no order.
C16_SameStructureInEveryOrder ==
    LoopEnded =>
       /\ OrderIndependent
       /\ \A path \in DOMAIN files :
             HasSeparator(path) =>
                IF HasFileAncestor(path)
                THEN NodePath(path) \notin DOMAIN tree
                ELSE FileAt(path) /\ UnderDirectories(NodePath(path))

\* a\b\c was visited before a\b and its nodes were replaced: the counter
\* passed five inodes and three nodes are left, as when a\b is visited first
C16_Witness ==
    /\ LoopEnded
    /\ DOMAIN files = {P_ab, P_abc}
    /\ ino_counter = 6
    /\ Cardinality(DOMAIN tree) = 3
    /\ \E order \in Perms(DOMAIN files) :
          /\ order[1] = P_ab
          /\ Structure(TreeOf(order)) = Structure(tree)
          /\ TreeOf(order) # tree

\* the archive list the serving phase is explored on: a\b of two bytes in the
\* first archive, an older a\b of one byte in the second
ServeSources ==
    << [status |-> "ok",
        entries |-> << [path |-> P_ab, time |-> 2, size |-> 2, dir |-> FALSE] >>],
       [status |-> "ok",
        entries |-> << [path |-> P_ab, time |-> 1, size |-> 1, dir |-> FALSE] >>] >>

\* the state main reaches when fuser::mount2 starts serving
Mounted(srcs) ==
    /\ sources = srcs
    /\ phase = "mounted"
    /\ files = scan_ok(sources, 1, EmptyFn)
    /\ pending = {}
    /\ \E order \in Perms(DOMAIN files) :
          LET r == build_all([tree |-> (<<>> :> dir(1)), ctr |-> 2], files, order)
          IN /\ tree = r.tree
             /\ ino_counter = r.ctr
    /\ filesystem = build_filesystem_map(tree)
    /\ dir_order \in DirOrders(tree)
    /\ InitServeVars

InitServe == Mounted(ServeSources)

\* the archive list the tree requests are explored on: a directory of three
\* files, of 0 bytes, of a block and a byte, and of the greatest size
TreeSources ==
    << [status |-> "ok",
        entries |-> << [path |-> <<"a", SEP, "b">>, time |-> 1, size |-> 0, dir |-> FALSE],
                       [path |-> <<"a", SEP, "c">>, time |-> 2, size |-> BLOCK_SIZE + 1, dir |-> FALSE],
                       [path |-> <<"a", SEP, "d">>, time |-> 1, size |-> USIZE_RANGE - 1,
                        dir |-> FALSE] >>] >>

InitTree == Mounted(TreeSources)

NextBuild == ScanPanic \/ ScanSkip \/ ScanOk \/ BeginBuild \/ BuildStep \/ FromTree

SpecBuild == InitBuild /\ [][NextBuild]_vars

SpecServe == InitServe /\ [][NextServe]_vars

SpecTree == InitTree /\ [][NextTree]_vars

SpecFaulty == InitServe /\ [][NextFaulty]_vars

SpecHandles == InitServe /\ [][NextHandles]_vars

\* the state SpecServe starts in is one SpecBuild ends in
ServeInitReached ==
    /\ phase = "mounted"
    /\ sources = ServeSources
    /\ files = scan_ok(ServeSources, 1, EmptyFn)
    /\ DOMAIN filesystem = {1, 2, 3}

====
